---- MODULE Spec2Model ----
(***************************************************************************)
(* A model of jsonresponse.to_json (src/jsonresponse/__init__.py): the     *)
(* decorator that renders a view's return value, or the exception it       *)
(* raised, as a JSON or JSONP HttpResponse.                                *)
(*                                                                         *)
(* One behaviour of the model is one call of the wrapped view: Init is the *)
(* decorator constructed with a serializer_type and a request with its     *)
(* query parameters, and the actions are the two wrappers of __call__,     *)
(* each taking the outcome of the view (a returned value or a raised       *)
(* exception) as its input.                                                *)
(*                                                                         *)
(* Text is a sequence of fragments (strings) whose concatenation is the    *)
(* text: Cat(text) is the Python string.  Query parameter values are text  *)
(* one character per fragment, so that lower() and int() are computed.     *)
(***************************************************************************)
EXTENDS Integers, Sequences, FiniteSets, TLC

\* The longest list a view returns.
MaxLen == 2

-----------------------------------------------------------------------------
(* Python values *)

None == [t |-> "none"]
PyInt(n) == [t |-> "int", v |-> n]
PyStr(s) == [t |-> "str", v |-> s]
PyList(xs) == [t |-> "list", v |-> xs]
\* A dict is its items, <<key, value>>, in iteration order.
PyDict(items) == [t |-> "dict", v |-> items]
\* An instance of a class: ser says what its serialize attribute is
\* ("ok": the doctest's User.serialize, "raises": a serialize that raises,
\* "missing": no such attribute); truthy is its __nonzero__.
Obj(cls, name, age, truthy, ser) ==
    [t |-> "obj", v |-> [cls |-> cls, name |-> name, age |-> age,
                         truthy |-> truthy, ser |-> ser]]

\* An exception instance: module and owner are <<>> when the instance has no
\* __module__ (a builtin exception class) or no owner attribute.
Error(module, owner, cls, desc) ==
    [module |-> module, owner |-> owner, cls |-> cls, desc |-> desc]

Bob == Obj("User", "Bob", 10, TRUE, "ok")
Anna == Obj("User", "Anna", 12, TRUE, "ok")
\* A serializable whose __nonzero__ is False.
Guest == Obj("Guest", "Guest", 0, FALSE, "ok")
Broken == Obj("Broken", "Broken", 0, TRUE, "raises")
Opaque == Obj("Opaque", "Opaque", 0, TRUE, "missing")

\* The strings of the model, and the characters of each (iterating a str).
Strings == {"", "world", "café"}

StrChars(s) ==
    CASE s = "" -> <<>>
      [] s = "world" -> <<"w", "o", "r", "l", "d">>
      [] s = "café" -> <<"c", "a", "f", "é">>

\* bool(x)
Truthy(x) ==
    CASE x.t = "none" -> FALSE
      [] x.t = "int" -> x.v # 0
      [] x.t = "str" -> x.v # ""
      [] x.t = "list" -> x.v # <<>>
      [] x.t = "dict" -> x.v # <<>>
      [] x.t = "obj" -> x.v.truthy

\* isinstance(x, collections.Iterable)
IsIterable(x) == x.t \in {"str", "list", "dict"}

\* list(iter(x)) of an iterable: the elements of a list, the keys of a dict,
\* the characters of a str.
Iter(x) ==
    CASE x.t = "list" -> x.v
      [] x.t = "dict" -> [i \in 1..Len(x.v) |-> PyStr(x.v[i][1])]
      [] x.t = "str" -> [i \in 1..Len(StrChars(x.v)) |-> PyStr(StrChars(x.v)[i])]

\* type(x).__name__
TypeName(x) ==
    CASE x.t = "none" -> "NoneType"
      [] x.t = "obj" -> x.v.cls
      [] OTHER -> x.t

-----------------------------------------------------------------------------
(* Text *)

RECURSIVE Cat(_)
Cat(text) == IF text = <<>> THEN "" ELSE Head(text) \o Cat(Tail(text))

UpperCase == <<"A", "B", "C", "D", "E", "F", "G", "H", "I", "J", "K", "L", "M",
               "N", "O", "P", "Q", "R", "S", "T", "U", "V", "W", "X", "Y", "Z">>
LowerCase == <<"a", "b", "c", "d", "e", "f", "g", "h", "i", "j", "k", "l", "m",
               "n", "o", "p", "q", "r", "s", "t", "u", "v", "w", "x", "y", "z">>

LowerChar(c) ==
    IF \E i \in 1..Len(UpperCase) : UpperCase[i] = c
    THEN LowerCase[CHOOSE i \in 1..Len(UpperCase) : UpperCase[i] = c]
    ELSE c

\* str.lower()
lower(text) == [i \in 1..Len(text) |-> LowerChar(text[i])]

DigitChars == <<"0", "1", "2", "3", "4", "5", "6", "7", "8", "9">>
IsDigit(c) == \E i \in 1..Len(DigitChars) : DigitChars[i] = c
DigitValue(c) == (CHOOSE i \in 1..Len(DigitChars) : DigitChars[i] = c) - 1

RECURSIVE strip(_)
strip(text) ==
    IF text # <<>> /\ Head(text) = " " THEN strip(Tail(text))
    ELSE IF text # <<>> /\ text[Len(text)] = " "
         THEN strip(SubSeq(text, 1, Len(text) - 1))
         ELSE text

RECURSIVE DigitsValue(_)
DigitsValue(ds) ==
    IF ds = <<>> THEN 0
    ELSE 10 * DigitsValue(SubSeq(ds, 1, Len(ds) - 1)) + DigitValue(ds[Len(ds)])

\* int(text): <<n>>, or <<>> when text is no integer literal (ValueError).
int(text) ==
    LET s == strip(text)
        signed == s # <<>> /\ Head(s) \in {"+", "-"}
        ds == IF signed THEN Tail(s) ELSE s
    IN  IF ds # <<>> /\ \A i \in 1..Len(ds) : IsDigit(ds[i])
        THEN <<(IF signed /\ Head(s) = "-" THEN -1 ELSE 1) * DigitsValue(ds)>>
        ELSE <<>>

\* str(n) of a natural number, one digit per fragment.
RECURSIVE IntText(_)
IntText(n) ==
    IF n < 10 THEN <<DigitChars[n + 1]>>
    ELSE IntText(n \div 10) \o <<DigitChars[(n % 10) + 1]>>

-----------------------------------------------------------------------------
(* json.dumps *)

RECURSIVE Flatten(_)
Flatten(seqs) == IF seqs = <<>> THEN <<>> ELSE Head(seqs) \o Flatten(Tail(seqs))

\* The objects json.dumps has no encoding for, in the order it meets them.
RECURSIVE Unencodable(_)
Unencodable(x) ==
    CASE x.t = "obj" -> <<x>>
      [] x.t = "list" -> Flatten([i \in 1..Len(x.v) |-> Unencodable(x.v[i])])
      [] x.t = "dict" -> Flatten([i \in 1..Len(x.v) |-> Unencodable(x.v[i][2])])
      [] OTHER -> <<>>

\* The \uXXXX escapes of ensure_ascii.
Escape(s) == IF s = "café" THEN "caf\\u00e9" ELSE s

StrLiteral(s, kwargs) ==
    <<"\"", IF kwargs.ensure_ascii THEN Escape(s) ELSE s, "\"">>

\* newline_indent of the encoder at a nesting level: nothing without indent.
NewlineIndent(kwargs, level) ==
    IF kwargs.indent = <<>> THEN <<>>
    ELSE <<"\n">> \o [i \in 1..(kwargs.indent[1] * level) |-> " "]

\* The item separator ', ', followed by newline_indent.
Separator(kwargs, level) == <<",", " ">> \o NewlineIndent(kwargs, level)

RECURSIVE Encode(_, _, _)
Encode(x, kwargs, level) ==
    LET Item(i) ==
            (IF i = 1 THEN <<>> ELSE Separator(kwargs, level + 1))
            \o (IF x.t = "dict"
                THEN StrLiteral(x.v[i][1], kwargs) \o <<":", " ">>
                     \o Encode(x.v[i][2], kwargs, level + 1)
                ELSE Encode(x.v[i], kwargs, level + 1))
        Items == Flatten([i \in 1..Len(x.v) |-> Item(i)])
        Inside == NewlineIndent(kwargs, level + 1) \o Items
                  \o NewlineIndent(kwargs, level)
    IN  CASE x.t = "none" -> <<"null">>
          [] x.t = "int" -> IntText(x.v)
          [] x.t = "str" -> StrLiteral(x.v, kwargs)
          [] x.t = "list" -> IF x.v = <<>> THEN <<"[", "]">>
                             ELSE <<"[">> \o Inside \o <<"]">>
          [] x.t = "dict" -> IF x.v = <<>> THEN <<"{", "}">>
                             ELSE <<"{">> \o Inside \o <<"}">>

\* json.dumps(data, **kwargs): the text, or the TypeError it raises.
dumps(data, kwargs) ==
    IF Unencodable(data) = <<>>
    THEN [ok |-> TRUE, text |-> Encode(data, kwargs, 0)]
    ELSE [ok |-> FALSE,
          exc |-> Error(<<>>, <<>>, "TypeError",
                        "<" \o TypeName(Unencodable(data)[1])
                            \o " object> is not JSON serializable")]

-----------------------------------------------------------------------------
(* The request and the view *)

Get(q, key, default) == IF key \in DOMAIN q THEN q[key] ELSE default

\* o.serialize(req): the value returned, or the exception raised.  An object
\* with the method is the doctest's User; anything without it raises
\* AttributeError.
serialize(o, q) ==
    IF o.t = "obj" /\ o.v.ser = "ok"
    THEN [ok |-> TRUE,
          val |-> IF Get(q, "with_age", <<>>) # <<>>
                  THEN PyDict(<< <<"age", PyInt(o.v.age)>>,
                                 <<"name", PyStr(o.v.name)>> >>)
                  ELSE PyDict(<< <<"name", PyStr(o.v.name)>> >>)]
    ELSE IF o.t = "obj" /\ o.v.ser = "raises"
    THEN [ok |-> FALSE,
          exc |-> Error(<<"myapp.models">>, <<>>, "ProfileError", "no profile")]
    ELSE [ok |-> FALSE,
          exc |-> Error(<<>>, <<>>, "AttributeError",
                        "'" \o TypeName(o)
                            \o "' object has no attribute 'serialize'")]

\* The query parameters a serialize call reads.
SerializeReads(o) == IF o.t = "obj" /\ o.v.ser = "ok" THEN <<"with_age">> ELSE <<>>

-----------------------------------------------------------------------------
(* to_json *)

SerializerTypes == {"plain", "api", "objects"}

\* SerializeElement testing the element, not the list.
SerializeElement_PerElement(obj, o) == Truthy(o)

\* The condition of the list comprehension: serialize o, an element of obj?
SerializeElement(obj, o) == Truthy(obj)

\* [o.serialize(req) if obj else None for o in obj] over the elements os still
\* to come: the list, or the exception that ends it, and the objects whose
\* serialize was called.
RECURSIVE Comprehension(_, _, _)
Comprehension(obj, os, q) ==
    IF os = <<>> THEN [ok |-> TRUE, val |-> <<>>, calls |-> <<>>]
    ELSE LET o == Head(os)
             called == SerializeElement(obj, o)
             first == IF called THEN serialize(o, q) ELSE [ok |-> TRUE, val |-> None]
             calls == IF called THEN <<o>> ELSE <<>>
         IN  IF ~first.ok THEN [ok |-> FALSE, exc |-> first.exc, calls |-> calls]
             ELSE LET rest == Comprehension(obj, Tail(os), q)
                  IN  IF rest.ok
                      THEN [ok |-> TRUE, val |-> <<first.val>> \o rest.val,
                            calls |-> calls \o rest.calls]
                      ELSE [ok |-> FALSE, exc |-> rest.exc,
                            calls |-> calls \o rest.calls]

\* Serializes whatever the serializer type.
Serializes_AnyType(st, obj) == Truthy(obj)

\* Whether obj_to_response serializes obj at all.
Serializes(st, obj) == st = "objects" /\ Truthy(obj)

Envelope(obj) == PyDict(<< <<"data", obj>>, <<"err", PyInt(0)>> >>)

obj_to_response(st, q, obj) ==
    IF Serializes(st, obj)
    THEN IF IsIterable(obj)
         THEN LET r == Comprehension(obj, Iter(obj), q)
              IN  IF r.ok
                  THEN [ok |-> TRUE, val |-> Envelope(PyList(r.val)), calls |-> r.calls]
                  ELSE r
         ELSE LET r == serialize(obj, q)
              IN  IF r.ok
                  THEN [ok |-> TRUE, val |-> Envelope(r.val), calls |-> <<obj>>]
                  ELSE [ok |-> FALSE, exc |-> r.exc, calls |-> <<obj>>]
    ELSE [ok |-> TRUE, val |-> Envelope(obj), calls |-> <<>>]

\* ErrClass forgetting the owner.
ErrClass_NoOwner(err) ==
    (IF err.module # <<>> THEN err.module[1] \o "." ELSE "") \o err.cls

\* err_module + err.__class__.__name__
ErrClass(err) ==
    LET err_module == IF err.module # <<>> THEN err.module[1] \o "." ELSE ""
        with_owner == IF err.owner # <<>>
                      THEN err_module \o err.owner[1] \o "."
                      ELSE err_module
    IN  with_owner \o err.cls

\* err_to_response putting the description in data.
err_to_response_WithData(err) ==
    PyDict(<< <<"err_class", PyStr(ErrClass(err))>>,
              <<"err_desc", PyStr(err.desc)>>,
              <<"data", PyStr(err.desc)>>,
              <<"err", PyInt(1)>> >>)

err_to_response(err) ==
    PyDict(<< <<"err_class", PyStr(ErrClass(err))>>,
              <<"err_desc", PyStr(err.desc)>>,
              <<"data", None>>,
              <<"err", PyInt(1)>> >>)

TrueWords == {<<"t", "r", "u", "e">>, <<"t">>, <<"1">>, <<"o", "n">>}

DebugParam(q) == lower(Get(q, "debug", <<"f", "a", "l", "s", "e">>)) \in TrueWords
DecodeParam(q) == lower(Get(q, "decode", <<"0">>)) \in TrueWords

\* Debug without the legacy decode parameter.
Debug_NoDecode(q) == DebugParam(q)

\* debug of render_data
Debug(q) == DebugParam(q) \/ DecodeParam(q)

\* The keyword arguments of json.dumps, with its defaults for those not given.
DumpsKwargs(debug) ==
    IF debug
    THEN [indent |-> <<4>>, ensure_ascii |-> FALSE, encoding |-> "utf8"]
    ELSE [indent |-> <<>>, ensure_ascii |-> TRUE, encoding |-> "utf-8"]

Format(q) == Get(q, "format", <<"j", "s", "o", "n">>)
JsonpCb(q) == Get(q, "callback", <<"c", "a", "l", "l", "b", "a", "c", "k">>)
IsJsonp(format) == format = <<"j", "s", "o", "n", "p">>

\* JsonpWrap without the semicolon.
JsonpWrap_NoSemicolon(jsonp_cb, plain) == jsonp_cb \o <<"(">> \o plain \o <<")">>

\* "%s(%s);" % (jsonp_cb, plain)
JsonpWrap(jsonp_cb, plain) == jsonp_cb \o <<"(">> \o plain \o <<")", ";">>

ContentType(format) ==
    (IF IsJsonp(format) THEN "application/javascript" ELSE "application/json")
    \o "; charset=UTF-8"

\* The query parameters render_data reads, in order: decode only when debug
\* did not already decide.
RenderReads(q) ==
    <<"debug">> \o (IF DebugParam(q) THEN <<>> ELSE <<"decode">>)
    \o <<"format", "callback">>

\* render_data: the HttpResponse, or the exception json.dumps raises.
render_data(q, data, status) ==
    LET kwargs == DumpsKwargs(Debug(q))
        plain == dumps(data, kwargs)
    IN  IF plain.ok
        THEN [ok |-> TRUE,
              response |-> [content |-> IF IsJsonp(Format(q))
                                        THEN JsonpWrap(JsonpCb(q), plain.text)
                                        ELSE plain.text,
                            content_type |-> ContentType(Format(q)),
                            status_code |-> status]]
        ELSE [ok |-> FALSE, exc |-> plain.exc]

\* RaiseParam never looking at the query.
RaiseParam_Ignored(q) == <<0>>

\* int(req.GET.get('raise', 0)): <<n>>, or <<>> when int() raises ValueError.
RaiseParam(q) == IF "raise" \in DOMAIN q THEN int(q["raise"]) ELSE <<0>>

\* Reraises for raise=1 alone.
Reraises_OnlyOne(n) == n = 1

\* The truth value of the integer in "if int(...): raise".
Reraises(n) == n # 0

\* The ValueError of int() on the raise parameter.
RaiseParamError(q) ==
    Error(<<>>, <<>>, "ValueError",
          "invalid literal for int() with base 10: '" \o Cat(q["raise"]) \o "'")

-----------------------------------------------------------------------------
(* The inputs: query strings and what a view does *)

Params(key, values) == {<<>>} \cup {key :> v : v \in values}

Requests ==
    { d @@ c @@ f @@ cb @@ r @@ w :
        d \in Params("debug", {<<"O", "n">>, <<"n", "o">>}),
        c \in Params("decode", {<<"T">>, <<"0">>}),
        f \in Params("format", {<<"j", "s", "o", "n", "p">>, <<"J", "S", "O", "N", "P">>}),
        cb \in Params("callback", {<<"f", "o", "o">>}),
        r \in Params("raise", {<<"1">>, <<"0">>, <<"-", "2">>, <<"x">>}),
        w \in Params("with_age", {<<"1">>}) }

Elements == {Bob, Anna, Guest, Broken, None, PyStr("café")}

Lists == {PyList(xs) : xs \in UNION {[1..n -> Elements] : n \in 0..MaxLen}}

Hello == PyDict(<< <<"hello", PyStr("world")>> >>)

Returned ==
    {None, PyInt(0), PyStr(""), PyStr("world"), PyDict(<<>>), Hello,
     Bob, Guest, Broken, Opaque} \cup Lists

Raised ==
    {Error(<<>>, <<>>, "Exception", "Wooot!??"),
     Error(<<"myapp.errors">>, <<>>, "NotFound", "no such user"),
     Error(<<"myapp.models">>, <<"User">>, "DoesNotExist",
           "User matching query does not exist."),
     Error(<<>>, <<"User">>, "Exception", "")}

\* What f(req) does: returns a value or raises an exception, an instance of
\* Exception (what "except Exception" catches).
Outcomes ==
    {[kind |-> "return", val |-> v] : v \in Returned}
    \cup {[kind |-> "raise", exc |-> e] : e \in Raised}

-----------------------------------------------------------------------------
(* The call of a wrapped view *)

VARIABLES
    serializer_type,  \* self.serializer_type
    GET,              \* req.GET
    pc,               \* "ready" before the call, "done" after it
    outcome,          \* what f(req) did in the call
    caught,           \* <<e>>: the exception the except clause of api caught
    serialized,       \* the objects o.serialize(req) was evaluated on, in order
    reads,            \* the query parameters read, in order
    rendered,         \* <<[data, status, kwargs]>>: the call of render_data
    result            \* what the wrapper did: a response, or a raised exception

vars == <<serializer_type, GET, pc, outcome, caught, serialized, reads,
          rendered, result>>

Init ==
    /\ serializer_type \in SerializerTypes
    /\ GET \in Requests
    /\ pc = "ready"
    /\ outcome = [kind |-> "pending"]
    /\ caught = <<>>
    /\ serialized = <<>>
    /\ reads = <<>>
    /\ rendered = <<>>
    /\ result = [kind |-> "none"]

\* Render with render_data inside the try: its exception becomes a failure
\* envelope.
Render_Caught(data, status) ==
    LET r == render_data(GET, data, status)
        again == render_data(GET, err_to_response(r.exc), 500)
    IN  /\ rendered' = <<[data |-> data, status |-> status,
                          kwargs |-> DumpsKwargs(Debug(GET))]>>
        /\ result' = IF r.ok THEN [kind |-> "response", response |-> r.response]
                     ELSE [kind |-> "response", response |-> again.response]

\* What a wrapper ends with, given the call of render_data that ends it.
Render(data, status) ==
    LET r == render_data(GET, data, status)
    IN  /\ rendered' = <<[data |-> data, status |-> status,
                          kwargs |-> DumpsKwargs(Debug(GET))]>>
        /\ result' = IF r.ok THEN [kind |-> "response", response |-> r.response]
                     ELSE [kind |-> "raised", exc |-> r.exc]

Propagate(exc) ==
    /\ rendered' = <<>>
    /\ result' = [kind |-> "raised", exc |-> exc]

\* to_json.api, through the wrapper of __call__ for every type but 'plain'.
api(out) ==
    /\ pc = "ready"
    /\ serializer_type # "plain"
    /\ LET tried == IF out.kind = "raise"
                    THEN [ok |-> FALSE, exc |-> out.exc, calls |-> <<>>]
                    ELSE obj_to_response(serializer_type, GET, out.val)
           called == Flatten([i \in 1..Len(tried.calls) |->
                                 SerializeReads(tried.calls[i])])
           n == RaiseParam(GET)
       IN  /\ serialized' = tried.calls
           /\ IF tried.ok
              THEN /\ caught' = <<>>
                   /\ reads' = called \o RenderReads(GET)
                   /\ Render(tried.val, 200)
              ELSE /\ caught' = <<tried.exc>>
                   /\ IF n = <<>>
                      THEN /\ reads' = called \o <<"raise">>
                           /\ Propagate(RaiseParamError(GET))
                      ELSE IF Reraises(n[1])
                      THEN /\ reads' = called \o <<"raise">>
                           /\ Propagate(tried.exc)
                      ELSE /\ reads' = called \o <<"raise">> \o RenderReads(GET)
                           /\ Render(err_to_response(tried.exc), 500)
    /\ outcome' = out
    /\ pc' = "done"
    /\ UNCHANGED <<serializer_type, GET>>

\* plain recovering from an exception of the view as api does.
plain_Recovering(out) ==
    /\ pc = "ready"
    /\ serializer_type = "plain"
    /\ IF out.kind = "raise"
       THEN /\ reads' = RenderReads(GET)
            /\ Render(err_to_response(out.exc), 500)
       ELSE /\ reads' = RenderReads(GET)
            /\ Render(out.val, 200)
    /\ caught' = <<>>
    /\ serialized' = <<>>
    /\ outcome' = out
    /\ pc' = "done"
    /\ UNCHANGED <<serializer_type, GET>>

\* to_json.plain, through the wrapper of __call__ for the type 'plain'.
plain(out) ==
    /\ pc = "ready"
    /\ serializer_type = "plain"
    /\ IF out.kind = "raise"
       THEN /\ reads' = <<>>
            /\ Propagate(out.exc)
       ELSE /\ reads' = RenderReads(GET)
            /\ Render(out.val, 200)
    /\ caught' = <<>>
    /\ serialized' = <<>>
    /\ outcome' = out
    /\ pc' = "done"
    /\ UNCHANGED <<serializer_type, GET>>

Next ==
    \/ \E out \in Outcomes : api(out)
    \/ \E out \in Outcomes : plain(out)

Spec == Init /\ [][Next]_vars

-----------------------------------------------------------------------------
(* Reading a response back: json.loads, and the pieces the properties name *)

IsSpace(c) == c \in {" ", "\n"}

RECURSIVE SkipSpace(_, _)
SkipSpace(text, i) ==
    IF i <= Len(text) /\ IsSpace(text[i]) THEN SkipSpace(text, i + 1) ELSE i

RECURSIVE DigitsEnd(_, _)
DigitsEnd(text, i) ==
    IF i <= Len(text) /\ IsDigit(text[i]) THEN DigitsEnd(text, i + 1) ELSE i

Unescape(s) == IF s = "caf\\u00e9" THEN "café" ELSE s

\* The JSON value that starts at text[i], and the index after it.
RECURSIVE ParseValue(_, _), ParseItems(_, _, _), ParseMembers(_, _, _)
ParseValue(text, i0) ==
    LET i == SkipSpace(text, i0)
    IN  CASE text[i] = "null" -> [val |-> None, next |-> i + 1]
          [] text[i] = "\"" -> [val |-> PyStr(Unescape(text[i + 1])), next |-> i + 3]
          [] text[i] = "[" -> ParseItems(text, i + 1, <<>>)
          [] text[i] = "{" -> ParseMembers(text, i + 1, <<>>)
          [] IsDigit(text[i]) ->
                [val |-> PyInt(DigitsValue(SubSeq(text, i, DigitsEnd(text, i) - 1))),
                 next |-> DigitsEnd(text, i)]

ParseItems(text, i0, acc) ==
    LET i == SkipSpace(text, i0)
    IN  IF text[i] = "]" THEN [val |-> PyList(acc), next |-> i + 1]
        ELSE IF text[i] = "," THEN ParseItems(text, i + 1, acc)
        ELSE LET item == ParseValue(text, i)
             IN  ParseItems(text, item.next, Append(acc, item.val))

ParseMembers(text, i0, acc) ==
    LET i == SkipSpace(text, i0)
    IN  IF text[i] = "}" THEN [val |-> PyDict(acc), next |-> i + 1]
        ELSE IF text[i] = "," THEN ParseMembers(text, i + 1, acc)
        ELSE LET key == ParseValue(text, i)
                 colon == SkipSpace(text, key.next)
                 value == ParseValue(text, colon + 1)
             IN  ParseMembers(text, value.next, Append(acc, <<key.val.v, value.val>>))

\* json.loads(text)
loads(text) == ParseValue(text, 1).val

\* The text between the parentheses of a JSONP body.
Unwrapped(content) ==
    LET open == CHOOSE i \in 1..Len(content) :
                    content[i] = "(" /\ \A j \in 1..(i - 1) : content[j] # "("
    IN  SubSeq(content, open + 1, Len(content) - 2)

Fragments(text) == {text[i] : i \in 1..Len(text)}

\* A dict as a mapping, whatever the order of its items.
Keys(d) == {d.v[i][1] : i \in 1..Len(d.v)}
Item(d, key) == d.v[CHOOSE i \in 1..Len(d.v) : d.v[i][1] = key][2]
Mapping(d) == [key \in Keys(d) |-> Item(d, key)]

Done == pc = "done"
Enveloping == serializer_type \in {"api", "objects"}
Responded == result.kind = "response"
Propagated(exc) == result = [kind |-> "raised", exc |-> exc]
HasParam(key) == key \in DOMAIN GET
ParamIs(key, value) == HasParam(key) /\ GET[key] = value
JsonpAsked == ParamIs("format", <<"j", "s", "o", "n", "p">>)

\* The JSON text of the response, and the value it decodes to.
JsonText == IF JsonpAsked THEN Unwrapped(result.response.content)
            ELSE result.response.content
Decoded == loads(JsonText)

-----------------------------------------------------------------------------
(* Properties *)

RECURSIVE Dotted(_)
Dotted(segments) ==
    IF Len(segments) = 1 THEN segments[1]
    ELSE Head(segments) \o "." \o Dotted(Tail(segments))

\* The failure envelope of an exception, as a mapping.
FailureOf(exc) ==
    ("err" :> PyInt(1))
    @@ ("err_class" :> PyStr(Dotted(exc.module \o exc.owner \o <<exc.cls>>)))
    @@ ("err_desc" :> PyStr(exc.desc))
    @@ ("data" :> None)

\* The call ended with a status-500 response carrying the failure envelope of exc.
Failed(exc) ==
    /\ Responded
    /\ result.response.status_code = 500
    /\ Len(rendered) = 1
    /\ Mapping(rendered[1].data) = FailureOf(exc)
    /\ Mapping(Decoded) = FailureOf(exc)

\* C1: in api and objects mode, an exception raised by the view on a request
\* without a raise parameter ends in a status-500 response whose body is
\* exactly {err: 1, err_class, err_desc, data: null}, err_desc the str() of
\* the exception and err_class its module (if it has one), the name of its
\* owner (if it has one) and its class name, joined by '.'.
C1_FailureEnvelope ==
    (Done /\ Enveloping /\ outcome.kind = "raise" /\ ~HasParam("raise"))
        => Failed(outcome.exc)

C1_Witness ==
    /\ Done /\ Enveloping /\ outcome.kind = "raise" /\ ~HasParam("raise")
    /\ outcome.exc.module # <<>> /\ outcome.exc.owner # <<>>
    /\ Responded /\ result.response.status_code = 500

\* C2: in api and objects mode, with raise=1 an exception raised by the view
\* propagates to the caller as it is: render_data is not called, no envelope
\* is built and no response is returned.
C2_RaisePropagates ==
    (Done /\ Enveloping /\ outcome.kind = "raise" /\ ParamIs("raise", <<"1">>))
        => /\ Propagated(outcome.exc)
           /\ rendered = <<>>

C2_Witness ==
    /\ Done /\ Enveloping /\ outcome.kind = "raise" /\ ParamIs("raise", <<"1">>)
    /\ result.kind = "raised"

\* C3: plain mode neither wraps nor recovers: a returned value is rendered as
\* it is with status 200, an exception of the view or of the encoding
\* propagates unchanged whatever the raise parameter, and no response has
\* status 500.
C3_PlainNoRecovery ==
    (Done /\ serializer_type = "plain")
        => /\ caught = <<>>
           /\ \A i \in 1..Len(reads) : reads[i] # "raise"
           /\ outcome.kind = "raise" =>
                 Propagated(outcome.exc) /\ rendered = <<>>
           /\ outcome.kind = "return" =>
                 /\ Len(rendered) = 1
                 /\ rendered[1].data = outcome.val
                 /\ rendered[1].status = 200
                 /\ IF Unencodable(outcome.val) = <<>>
                    THEN /\ Responded
                         /\ result.response.status_code = 200
                         /\ Decoded = outcome.val
                    ELSE /\ result.kind = "raised"
                         /\ result.exc.cls = "TypeError"
           /\ Responded => result.response.status_code # 500

C3_Witness ==
    /\ Done /\ serializer_type = "plain" /\ HasParam("raise")
    /\ outcome.kind = "return" /\ outcome.val = Hello
    /\ Responded /\ Decoded = Hello

\* C4: in api mode a returned value r is enveloped as exactly
\* {err: 0, data: r} with status 200: r is unchanged and serialize is called
\* on nothing, whether or not r or its elements have a serialize.
C4_ApiPassThrough ==
    (Done /\ serializer_type = "api" /\ outcome.kind = "return")
        => /\ serialized = <<>>
           /\ caught = <<>>
           /\ Len(rendered) = 1
           /\ Mapping(rendered[1].data) = ("err" :> PyInt(0)) @@ ("data" :> outcome.val)
           /\ rendered[1].status = 200
           /\ Unencodable(outcome.val) = <<>> =>
                 /\ Responded
                 /\ result.response.status_code = 200
                 /\ Mapping(Decoded) = ("err" :> PyInt(0)) @@ ("data" :> outcome.val)

C4_Witness ==
    /\ Done /\ serializer_type = "api" /\ outcome.kind = "return"
    /\ outcome.val = PyList(<<Bob, Guest>>)
    /\ Mapping(rendered[1].data)["data"] = PyList(<<Bob, Guest>>)
    /\ serialized = <<>>

\* What serialize(request) of the doctest's User returns: the name, and the
\* age when the request has a non-empty with_age parameter.
UserData(o) ==
    IF HasParam("with_age") /\ GET["with_age"] # <<>>
    THEN ("name" :> PyStr(o.v.name)) @@ ("age" :> PyInt(o.v.age))
    ELSE ("name" :> PyStr(o.v.name))

IsUser(o) == o.t = "obj" /\ o.v.ser = "ok"

\* C5: in objects mode a returned value that is falsy is enveloped unchanged
\* with no serialize call; a non-empty sequence becomes the sequence, in
\* order and of the same length, of serialize(request) of every element,
\* falsy elements included; a single non-iterable value becomes its
\* serialize(request).
C5_ObjectsSerialize ==
    (Done /\ serializer_type = "objects" /\ outcome.kind = "return")
        => LET r == outcome.val
               data == Item(rendered[1].data, "data")
           IN  /\ ~Truthy(r) =>
                     /\ serialized = <<>>
                     /\ Len(rendered) = 1
                     /\ Mapping(rendered[1].data) = ("err" :> PyInt(0)) @@ ("data" :> r)
                     /\ rendered[1].status = 200
               /\ (Truthy(r) /\ r.t = "list") =>
                     /\ Len(serialized) <= Len(r.v)
                     /\ serialized = SubSeq(r.v, 1, Len(serialized))
                     /\ (\A i \in 1..Len(r.v) : IsUser(r.v[i])) =>
                           /\ serialized = r.v
                           /\ Len(rendered) = 1
                           /\ Keys(rendered[1].data) = {"err", "data"}
                           /\ Item(rendered[1].data, "err") = PyInt(0)
                           /\ data.t = "list"
                           /\ Len(data.v) = Len(r.v)
                           /\ \A i \in 1..Len(r.v) :
                                 Mapping(data.v[i]) = UserData(r.v[i])
                           /\ Responded
                           /\ result.response.status_code = 200
               /\ (Truthy(r) /\ r.t = "obj") =>
                     /\ serialized = <<r>>
                     /\ IsUser(r) =>
                           /\ Len(rendered) = 1
                           /\ Keys(rendered[1].data) = {"err", "data"}
                           /\ Item(rendered[1].data, "err") = PyInt(0)
                           /\ Mapping(data) = UserData(r)
                           /\ Responded
                           /\ result.response.status_code = 200

C5_Witness ==
    /\ Done /\ serializer_type = "objects" /\ outcome.kind = "return"
    /\ outcome.val = PyList(<<Guest, Bob>>)
    /\ HasParam("with_age")
    /\ serialized = <<Guest, Bob>>
    /\ Responded

CallbackName ==
    IF HasParam("callback") THEN GET["callback"]
    ELSE <<"c", "a", "l", "l", "b", "a", "c", "k">>

C7_NullIffError ==
    (Done /\ Enveloping /\ Len(rendered) = 1)
        => LET envelope == rendered[1].data
           IN  /\ "err" \in Keys(envelope)
               /\ Item(envelope, "err") \in {PyInt(0), PyInt(1)}
               /\ Item(envelope, "data") = None <=> Item(envelope, "err") = PyInt(1)

\* C7 as amended: every envelope of an api- or objects-mode call has err equal
\* to 0 or 1, err is 1 exactly when an exception was caught, and data is null
\* whenever err is 1 (a view that returns None gives {err: 0, data: null}).
C7_ErrorImpliesNull ==
    (Done /\ Enveloping /\ Len(rendered) = 1)
        => LET envelope == rendered[1].data
           IN  /\ {"err", "data"} \subseteq Keys(envelope)
               /\ Item(envelope, "err") \in {PyInt(0), PyInt(1)}
               /\ Item(envelope, "err") = PyInt(1) <=> caught # <<>>
               /\ Item(envelope, "err") = PyInt(1) => Item(envelope, "data") = None
               /\ Responded => Mapping(Decoded) = Mapping(envelope)

C7_Witness ==
    /\ Done /\ Enveloping /\ Len(rendered) = 1 /\ Responded
    /\ Item(Decoded, "err") = PyInt(1)
    /\ Item(Decoded, "data") = None

\* The serialize call that raised, if one did: the last one made.
SerializeFailed ==
    /\ outcome.kind = "return"
    /\ serialized # <<>>
    /\ ~IsUser(serialized[Len(serialized)])

SerializeError == serialize(serialized[Len(serialized)], GET).exc

\* json.dumps was given a payload it cannot encode.
EncodeFailed == Len(rendered) = 1 /\ Unencodable(rendered[1].data) # <<>>

\* C8 as stated: in api and objects mode a failing serialize call and a
\* payload that cannot be JSON-encoded are handled like an exception of the
\* view: a status-500 failure envelope without the raise parameter, the
\* exception propagated with raise=1.
C8_OneScope ==
    (Done /\ Enveloping /\ (SerializeFailed \/ EncodeFailed))
        => /\ ~HasParam("raise") =>
                 /\ Responded
                 /\ result.response.status_code = 500
                 /\ Item(Decoded, "err") = PyInt(1)
           /\ ParamIs("raise", <<"1">>) => result.kind = "raised"

\* C8 as amended: a failing serialize call in objects mode is handled like an
\* exception of the view (caught: a status-500 failure envelope of it without
\* the raise parameter, propagated with raise=1); a payload that cannot be
\* JSON-encoded is not: render_data runs outside the try, so the TypeError of
\* json.dumps propagates whatever the raise parameter, which is not read.
C8_SerializeScope ==
    (Done /\ Enveloping)
        => /\ SerializeFailed =>
                 /\ serializer_type = "objects"
                 /\ caught = <<SerializeError>>
                 /\ ~HasParam("raise") => Failed(SerializeError)
                 /\ ParamIs("raise", <<"1">>) =>
                       Propagated(SerializeError) /\ rendered = <<>>
           /\ EncodeFailed =>
                 /\ caught = <<>>
                 /\ result.kind = "raised"
                 /\ result.exc.cls = "TypeError"
                 /\ \A i \in 1..Len(reads) : reads[i] # "raise"

C8_Witness ==
    /\ Done /\ serializer_type = "objects" /\ ~HasParam("raise")
    /\ outcome.kind = "return" /\ outcome.val = PyList(<<Bob, Broken>>)
    /\ SerializeFailed
    /\ Responded /\ result.response.status_code = 500

Affirmatives == {<<"t", "r", "u", "e">>, <<"t">>, <<"1">>, <<"o", "n">>}

SameIgnoringCase(text, word) ==
    /\ Len(text) = Len(word)
    /\ \A i \in 1..Len(text) :
          \/ text[i] = word[i]
          \/ \E j \in 1..Len(UpperCase) :
                UpperCase[j] = text[i] /\ LowerCase[j] = word[i]

Affirmative(key) ==
    HasParam(key) /\ \E word \in Affirmatives : SameIgnoringCase(GET[key], word)

DebugAsked == Affirmative("debug") \/ Affirmative("decode")

\* C9: render_data encodes pretty-printed (indented, non-ASCII unescaped) if
\* and only if the debug or the decode parameter is, whatever its case, one of
\* 'true', 't', '1', 'on', and compactly otherwise; the layout is all that
\* differs: the status, the content type and the decoded body do not.
C9_DebugLayout ==
    Len(rendered) = 1
        => /\ rendered[1].kwargs.indent # <<>> <=> DebugAsked
           /\ rendered[1].kwargs.ensure_ascii <=> ~DebugAsked
           /\ Responded =>
                 /\ Decoded = rendered[1].data
                 /\ result.response.status_code = rendered[1].status
                 /\ result.response.content_type
                      = (IF JsonpAsked THEN "application/javascript; charset=UTF-8"
                         ELSE "application/json; charset=UTF-8")
                 /\ ~DebugAsked =>
                       /\ "\n" \notin Fragments(JsonText)
                       /\ "café" \notin Fragments(JsonText)
                 /\ DebugAsked =>
                       /\ "caf\\u00e9" \notin Fragments(JsonText)
                       /\ (rendered[1].data.t \in {"list", "dict"}
                             /\ rendered[1].data.v # <<>>)
                          => SubSeq(JsonText, 2, 6) = <<"\n", " ", " ", " ", " ">>

C9_Witness ==
    /\ Len(rendered) = 1 /\ Responded
    /\ ParamIs("decode", <<"T">>) /\ ParamIs("debug", <<"n", "o">>)
    /\ "\n" \in Fragments(JsonText)
    /\ "café" \in Fragments(JsonText)

Read(key) == \E i \in 1..Len(reads) : reads[i] = key

\* C10: in api and objects mode the raise parameter is read only once an
\* exception has been caught, and as an integer: without a caught exception it
\* is not read; with one, the exception propagates for any value that parses to
\* a nonzero integer, a status-500 failure envelope is returned when the
\* parameter is absent or parses to 0, and a value that is no integer makes the
\* ValueError of the parse propagate instead.
C10_RaiseParameter ==
    (Done /\ Enveloping)
        => /\ caught = <<>> =>
                 /\ ~Read("raise")
                 /\ Len(rendered) = 1
                 /\ Responded => result.response.status_code = 200
                 /\ ~Responded => EncodeFailed /\ result.exc.cls = "TypeError"
           /\ caught # <<>> =>
                 /\ Read("raise")
                 /\ (~HasParam("raise") \/ ParamIs("raise", <<"0">>)) =>
                       Failed(caught[1])
                 /\ (ParamIs("raise", <<"1">>) \/ ParamIs("raise", <<"-", "2">>)) =>
                       Propagated(caught[1]) /\ rendered = <<>>
                 /\ ParamIs("raise", <<"x">>) =>
                       /\ result.kind = "raised"
                       /\ result.exc.cls = "ValueError"
                       /\ result.exc # caught[1]
                       /\ rendered = <<>>

C10_Witness ==
    /\ Done /\ Enveloping /\ caught # <<>>
    /\ ParamIs("raise", <<"x">>)
    /\ result.kind = "raised" /\ result.exc.cls = "ValueError"

====
